---- MODULE Spec2Model ----
(***************************************************************************)
(* A model of the raytracing crate: the ray/sphere intersection, the       *)
(* closest-hit search, the lighting evaluator, the recursive tracer and    *)
(* the frame driver.                                                       *)
(*                                                                         *)
(* Numbers.  An f64 value v is modelled by the integer nearest to          *)
(* v * SCALE (fixed point, three decimal digits).  Every arithmetic        *)
(* operation rounds its exact result to the nearest representable value,   *)
(* symmetrically in the sign, as IEEE-754 arithmetic does; the operations  *)
(* are applied in the order the source applies them.  f64::INFINITY is a   *)
(* value above every finite value of the model.                            *)
(***************************************************************************)
EXTENDS Integers, Sequences, FiniteSets, TLC

\* ------------------------------------------------------------------ f64

SCALE == 10 ^ 3

\* the f64 value of an integer literal such as 2.0
F(k) == k * SCALE

INFINITY == 2 ^ 30

NEG_INFINITY == 0 - INFINITY

Abs(x) == IF x < 0 THEN 0 - x ELSE x

\* n / d rounded to the nearest integer, halves away from zero (d > 0)
Rnd(n, d) ==
    IF n >= 0 THEN (n + d \div 2) \div d ELSE 0 - (((0 - n) + d \div 2) \div d)

\* x * y; the product is split so that no intermediate value leaves 32 bits
FMul(x, y) ==
    LET ax == Abs(x)
        ay == Abs(y)
        q1 == ax \div SCALE
        r1 == ax % SCALE
        q2 == ay \div SCALE
        r2 == ay % SCALE
        m == q1 * ay + r1 * q2 + (r1 * r2 + SCALE \div 2) \div SCALE
    IN  IF (x < 0) = (y < 0) THEN m ELSE 0 - m

\* x / y
FDiv(x, y) == IF y > 0 THEN Rnd(x * SCALE, y) ELSE Rnd(0 - (x * SCALE), 0 - y)

\* the integer part of (x * SCALE) / m, for x >= 0 and m > 0
ScaledDiv(x, m) == (x \div m) * SCALE + ((x % m) * SCALE) \div m

\* the remainder of (x * SCALE) / m, for x >= 0 and m > 0
ScaledMod(x, m) == ((x % m) * SCALE) % m

RECURSIVE ISqrtIter(_, _, _)
\* the largest s in lo .. hi - 1 with s * s <= x * SCALE, given that lo is one
\* and hi is none
ISqrtIter(x, lo, hi) ==
    IF hi - lo <= 1 THEN lo
    ELSE LET mid == (lo + hi) \div 2
         IN  IF mid <= ScaledDiv(x, mid) THEN ISqrtIter(x, mid, hi)
             ELSE ISqrtIter(x, lo, mid)

\* f64::sqrt, correctly rounded (x >= 0): s or s + 1, whichever is nearer
FSqrt(x) ==
    LET s == ISqrtIter(x, 0, 2 ^ 20)
    IN  IF ScaledDiv(x, s + 1) = s /\ ScaledMod(x, s + 1) > 0 THEN s + 1 ELSE s

RECURSIVE FPowi(_, _)
\* f64::powi
FPowi(x, s) ==
    IF s = 0 THEN F(1)
    ELSE IF s < 0 THEN FDiv(F(1), FPowi(x, 0 - s))
    ELSE FMul(x, FPowi(x, s - 1))

\* Option<T>: None, or Some(v)
None == <<>>

Some(v) == <<v>>

\* ------------------------------------------------------------------ Vec3

Vec3(x, y, z) == [x |-> x, y |-> y, z |-> z]

\* a vector with integer coordinates
V(x, y, z) == Vec3(F(x), F(y), F(z))

dot(a, b) == FMul(a.x, b.x) + FMul(a.y, b.y) + FMul(a.z, b.z)

len(a) == FSqrt(dot(a, a))

Neg(a) == Vec3(0 - a.x, 0 - a.y, 0 - a.z)

Add(a, b) == Vec3(a.x + b.x, a.y + b.y, a.z + b.z)

Sub(a, b) == Vec3(a.x - b.x, a.y - b.y, a.z - b.z)

\* f64 * Vec3 and Vec3 * f64
MulV(f, v) == Vec3(FMul(v.x, f), FMul(v.y, f), FMul(v.z, f))

DivV(v, f) == Vec3(FDiv(v.x, f), FDiv(v.y, f), FDiv(v.z, f))

normalized(a) == DivV(a, len(a))

\* ------------------------------------------------------------------ Color

Color(r, g, b) == <<r, g, b>>

BLACK == Color(0, 0, 0)

ColorAdd(c, d) == Color(c[1] + d[1], c[2] + d[2], c[3] + d[3])

\* f64 * Color and Color * f64
ColorMul(c, f) == Color(FMul(f, c[1]), FMul(f, c[2]), FMul(f, c[3]))

\* 256.0 * f, also for an infinite f
Times256(f) ==
    IF f >= INFINITY THEN INFINITY
    ELSE IF f <= NEG_INFINITY THEN NEG_INFINITY
    ELSE FMul(F(256), f)

\* the integer part of an f64, as a cast to an integer type takes it
Trunc(f) == IF f >= 0 THEN f \div SCALE ELSE 0 - ((0 - f) \div SCALE)

\* the conversion with a cast that keeps the low 8 bits of the integer part
ToU8Wrapping(f) == Trunc(Times256(f)) % 256

\* to_u8: (256.0 * f) as u8, a cast that saturates at 0 and at 255
to_u8(f) ==
    LET t == Trunc(Times256(f))
    IN  IF t < 0 THEN 0 ELSE IF t > 255 THEN 255 ELSE t

\* Color::to_u8
ColorToU8(c) == <<to_u8(c[1]), to_u8(c[2]), to_u8(c[3])>>

\* ------------------------------------------------------------------ Ray

Ray(origin, direction) == [origin |-> origin, direction |-> direction]

at(ray, t) == Add(ray.origin, MulV(t, ray.direction))

\* Range<f64>, start .. end
Range(start, end) == [start |-> start, end |-> end]

\* contains with the end of the range included
ContainsClosed(range, t) == range.start <= t /\ t <= range.end

contains(range, t) == range.start <= t /\ t < range.end

\* ------------------------------------------------------------------ scene

Material(color, specular, reflective) ==
    [color |-> color, specular |-> specular, reflective |-> reflective]

MaterialBLACK == Material(BLACK, None, 0)

Sphere(center, radius, material) ==
    [center |-> center, radius |-> radius, material |-> material]

Ambient == [kind |-> "Ambient"]

Point(position) == [kind |-> "Point", position |-> position]

Directional(direction) == [kind |-> "Directional", direction |-> direction]

Light(intensity, source) == [intensity |-> intensity, source |-> source]

Scene(background_color, lights, spheres) ==
    [background_color |-> background_color, lights |-> lights, spheres |-> spheres]

\* intersect_ray that takes a ray touching the sphere for a miss
IntersectRayNoTangent(sphere, ray) ==
    LET r == sphere.radius
        co == Sub(ray.origin, sphere.center)
        a == dot(ray.direction, ray.direction)
        b == FMul(F(2), dot(co, ray.direction))
        c == dot(co, co) - FMul(r, r)
        discriminant == FMul(b, b) - FMul(FMul(F(4), a), c)
        t1 == FDiv((0 - b) + FSqrt(discriminant), FMul(F(2), a))
        t2 == FDiv((0 - b) - FSqrt(discriminant), FMul(F(2), a))
    IN  IF discriminant <= 0 THEN <<>>
        ELSE IF t1 < t2 THEN <<t1, t2>> ELSE <<t2, t1>>

\* Sphere::intersect_ray: the values t where the ray meets the sphere
intersect_ray(sphere, ray) ==
    LET r == sphere.radius
        co == Sub(ray.origin, sphere.center)
        a == dot(ray.direction, ray.direction)
        b == FMul(F(2), dot(co, ray.direction))
        c == dot(co, co) - FMul(r, r)
        discriminant == FMul(b, b) - FMul(FMul(F(4), a), c)
        t1 == FDiv((0 - b) + FSqrt(discriminant), FMul(F(2), a))
        t2 == FDiv((0 - b) - FSqrt(discriminant), FMul(F(2), a))
    IN  IF discriminant < 0 THEN <<>>
        ELSE IF discriminant = 0 THEN <<FDiv(0 - b, FMul(F(2), a))>>
        ELSE IF t1 < t2 THEN <<t1, t2>> ELSE <<t2, t1>>

\* ------------------------------------------------------------------ raytracer

\* ClosestVisit that replaces the closest hit by a later one with the same t
ClosestVisitLast(closest, sphere, t, t_range) ==
    IF ~contains(t_range, t) THEN closest
    ELSE IF closest = None \/ t <= closest[1].t
         THEN Some([sphere |-> sphere, t |-> t])
         ELSE closest

\* the body of closest_intersection's inner loop, for one value t of one sphere
ClosestVisit(closest, sphere, t, t_range) ==
    IF ~contains(t_range, t) THEN closest
    ELSE IF closest = None \/ t < closest[1].t
         THEN Some([sphere |-> sphere, t |-> t])
         ELSE closest

RECURSIVE ClosestOverTs(_, _, _, _, _)
\* the inner loop of closest_intersection from the k-th value of ts on
ClosestOverTs(closest, sphere, ts, k, t_range) ==
    IF k > Len(ts) THEN closest
    ELSE ClosestOverTs(ClosestVisit(closest, sphere, ts[k], t_range),
                       sphere, ts, k + 1, t_range)

RECURSIVE ClosestOverSpheres(_, _, _, _, _)
\* the outer loop of closest_intersection from the k-th sphere on
ClosestOverSpheres(closest, spheres, k, ray, t_range) ==
    IF k > Len(spheres) THEN closest
    ELSE ClosestOverSpheres(
             ClosestOverTs(closest, spheres[k], intersect_ray(spheres[k], ray), 1, t_range),
             spheres, k + 1, ray, t_range)

closest_intersection(scene, ray, t_range) ==
    ClosestOverSpheres(None, scene.spheres, 1, ray, t_range)

\* the ray less its component along n once, where reflect_ray takes it twice
ReflectRayOnce(r, n) == Sub(r, MulV(dot(n, r), n))

\* reflect_ray: how a ray r is reflected by a surface with normal n
reflect_ray(r, n) == Sub(r, MulV(dot(n, r), MulV(F(2), n)))

\* the 0.001 that starts the range of shadow rays and of reflection rays
EPSILON == SCALE \div 1000

\* the vector l from p towards the light (the match on light.source)
LightVector(light, p) ==
    IF light.source.kind = "Point" THEN Sub(light.source.position, p)
    ELSE light.source.direction

\* the end of the shadow range with that of a directional light for every light
LightTMaxInfinite(light) == INFINITY

\* the end t_max of the shadow range (the match on light.source)
LightTMax(light) == IF light.source.kind = "Point" THEN F(1) ELSE INFINITY

\* a shadow check that finds nothing in the way
NeverInShadow(scene, p, l, t_max) == FALSE

\* the shadow check of compute_lighting
InShadow(scene, p, l, t_max) ==
    closest_intersection(scene, Ray(p, l), Range(EPSILON, t_max)) # None

\* the diffuse term without the test that the surface faces the light
DiffuseUnguarded(intensity, n, l) ==
    FDiv(FMul(intensity, dot(n, l)), FMul(len(n), len(l)))

\* the diffuse term of compute_lighting
Diffuse(intensity, n, l) ==
    LET n_dot_l == dot(n, l)
    IN  IF n_dot_l > 0 THEN FDiv(FMul(intensity, n_dot_l), FMul(len(n), len(l)))
        ELSE 0

\* the specular term of compute_lighting
Specular(intensity, n, l, v, specular) ==
    IF specular = None THEN 0
    ELSE LET s == specular[1]
             r == reflect_ray(Neg(l), n)
             r_dot_v == dot(r, v)
         IN  IF r_dot_v > 0
             THEN FMul(intensity, FPowi(FDiv(r_dot_v, FMul(len(r), len(v))), s))
             ELSE 0

\* LightingVisit with an ambient light that sets i where it should add to it
LightingVisitAssign(i, scene, light, p, n, v, specular) ==
    IF light.source.kind = "Ambient" THEN light.intensity
    ELSE LET l == LightVector(light, p)
             t_max == LightTMax(light)
         IN  IF InShadow(scene, p, l, t_max) THEN i
             ELSE i + (Diffuse(light.intensity, n, l)
                       + Specular(light.intensity, n, l, v, specular))

\* the body of compute_lighting's loop for one light: the new value of i
LightingVisit(i, scene, light, p, n, v, specular) ==
    IF light.source.kind = "Ambient" THEN i + light.intensity
    ELSE LET l == LightVector(light, p)
             t_max == LightTMax(light)
         IN  IF InShadow(scene, p, l, t_max) THEN i
             ELSE i + (Diffuse(light.intensity, n, l)
                       + Specular(light.intensity, n, l, v, specular))

RECURSIVE LightingFrom(_, _, _, _, _, _, _)
\* compute_lighting's loop from the k-th light on
LightingFrom(i, scene, k, p, n, v, specular) ==
    IF k > Len(scene.lights) THEN i
    ELSE LightingFrom(LightingVisit(i, scene, scene.lights[k], p, n, v, specular),
                      scene, k + 1, p, n, v, specular)

compute_lighting(scene, p, n, v, specular) == LightingFrom(0, scene, 1, p, n, v, specular)

\* trace_ray, on a hit: the point p where the ray meets the sphere
HitPoint(ray, hit) == at(ray, hit.t)

\* trace_ray, on a hit: the normal n
HitNormal(ray, hit) == normalized(Sub(HitPoint(ray, hit), hit.sphere.center))

\* trace_ray, on a hit: local_color
LocalColor(scene, ray, hit) ==
    LET material == hit.sphere.material
    IN  ColorMul(material.color,
                 compute_lighting(scene, HitPoint(ray, hit), HitNormal(ray, hit),
                                  Neg(ray.direction), material.specular))

\* a miss that returns black, whatever the background is
MissColorBlack(scene) == BLACK

\* trace_ray: the color returned when nothing is hit
MissColor(scene) == scene.background_color

\* the test that ends the recursion, letting a budget of 0 through
NoReflectionBelowZero(recursion_depth, r) == recursion_depth < 0 \/ r <= 0

\* trace_ray: the test that ends the recursion
NoReflection(recursion_depth, r) == recursion_depth <= 0 \/ r <= 0

\* trace_ray: the ray of the recursive call
ReflectedRay(ray, hit) ==
    Ray(HitPoint(ray, hit), reflect_ray(ray.direction, HitNormal(ray, hit)))

\* trace_ray: the range of the recursive call
ReflectedRange == Range(EPSILON, INFINITY)

\* a recursive call with the budget of its caller
ReflectedDepthSame(recursion_depth) == recursion_depth

\* trace_ray: the budget of the recursive call
ReflectedDepth(recursion_depth) == recursion_depth - 1

\* the blend with the two weights exchanged
BlendSwapped(local_color, reflected_color, r) ==
    ColorAdd(ColorMul(local_color, r), ColorMul(reflected_color, F(1) - r))

\* trace_ray: the color returned after the recursive call
Blend(local_color, reflected_color, r) ==
    ColorAdd(ColorMul(local_color, F(1) - r), ColorMul(reflected_color, r))

\* ------------------------------------------------------------------ canvas

\* integer division of Rust: the quotient truncated towards zero (b > 0)
IDiv(a, b) == IF a >= 0 THEN a \div b ELSE 0 - ((0 - a) \div b)

\* Canvas::new: all color values zero (black)
CanvasNew(width, height) ==
    [width |-> width, height |-> height, pixels |-> [k \in 1 .. width * height |-> BLACK]]

\* the test without its two lower bounds
OutOfRangeAboveOnly(canvas, x, y) ==
    LET w2 == IDiv(canvas.width, 2)
        h2 == IDiv(canvas.height, 2)
    IN  x >= w2 \/ y >= h2

\* the test with the right and the top edge one too far out
OutOfRangeOffByOne(canvas, x, y) ==
    LET w2 == IDiv(canvas.width, 2)
        h2 == IDiv(canvas.height, 2)
    IN  x < 0 - w2 \/ x > w2 \/ y < 0 - h2 \/ y > h2

\* Canvas::put_pixel: the test that makes it return without a write
OutOfRange(canvas, x, y) ==
    LET w2 == IDiv(canvas.width, 2)
        h2 == IDiv(canvas.height, 2)
    IN  x < 0 - w2 \/ x >= w2 \/ y < 0 - h2 \/ y >= h2

\* the index with the rows stored bottom row first
PixelIndexBottomUp(canvas, x, y) ==
    LET w2 == IDiv(canvas.width, 2)
        h2 == IDiv(canvas.height, 2)
        col == w2 + x
        row == h2 + y
    IN  row * canvas.width + col

\* Canvas::put_pixel: the index y * self.width + x it computes, counted from 0
PixelIndex(canvas, x, y) ==
    LET w2 == IDiv(canvas.width, 2)
        h2 == IDiv(canvas.height, 2)
        col == w2 + x
        row == h2 - 1 - y
    IN  row * canvas.width + col

\* Canvas::put_pixel: self.pixels[index] panics, the index being outside the vector
Panics(canvas, x, y) ==
    /\ ~OutOfRange(canvas, x, y)
    /\ ~(0 <= PixelIndex(canvas, x, y) /\ PixelIndex(canvas, x, y) < Len(canvas.pixels))

\* Canvas::put_pixel; cell k of pixels is the element of index k - 1 of the vector
put_pixel(canvas, x, y, color) ==
    IF OutOfRange(canvas, x, y) THEN canvas
    ELSE [canvas EXCEPT !.pixels[PixelIndex(canvas, x, y) + 1] = color]

\* no cell of the pixels of a new canvas has been assigned
NoWrites(canvas) == [k \in DOMAIN canvas.pixels |-> 0]

\* the assignments to the cells after put_pixel(x, y, _)
Written(writes, canvas, x, y) ==
    IF OutOfRange(canvas, x, y) THEN writes
    ELSE [writes EXCEPT ![PixelIndex(canvas, x, y) + 1] = @ + 1]

\* ------------------------------------------------------------------ frame driver

\* the budget go gives every sample
recursion_depth == 3

\* the sub-pixel offsets of go
offset == <<0 - 400, 0 - 200, 0, 200, 400>>

\* the weight of one sample in the average of a pixel
SampleWeight == (4 * SCALE) \div 100

\* Raytracer::canvas_to_viewport
canvas_to_viewport(rt, x, y) ==
    Vec3(FDiv(FMul(x, rt.viewport_width), F(rt.canvas_width)),
         FDiv(FMul(y, rt.viewport_height), F(rt.canvas_height)),
         rt.distance_to_projection_plane)

\* the ray of the sample of pixel (x, y) with offsets offset[xo], offset[yo]
SampleRay(rt, x, y, xo, yo) ==
    Ray(V(0, 0, 0), canvas_to_viewport(rt, F(x) + offset[xo], F(y) + offset[yo]))

\* the range go gives every sample
SampleRange == Range(F(1), INFINITY)

\* ------------------------------------------------------------------ inputs

MaxDepth == 3

MaxCanvas == 2

red == Color(F(1), 0, 0)

green == Color(0, F(1), 0)

blue == Color(0, 0, F(1))

\* the scene of tests::trace_ray_works, both spheres reflective, the ambient
\* light of 0.8 as two lights
SceneTwo ==
    Scene(blue,
          <<Light(500, Ambient), Light(300, Ambient)>>,
          <<Sphere(V(0, 0, 0 - 2), F(1), Material(green, None, 600)),
            Sphere(V(0, 0, 2), F(1), Material(red, None, 600))>>)

\* two perfect mirrors facing each other, under the three kinds of light
SceneMirrors ==
    Scene(BLACK,
          <<Light(200, Ambient),
            Light(600, Point(V(0, 0, 5))),
            Light(700, Directional(V(0, 1, 1))),
            Light(100, Ambient)>>,
          <<Sphere(V(0, 0, 0 - 2), F(1), Material(green, Some(2), F(1))),
            Sphere(V(0, 0, 2), F(1), Material(red, None, F(1)))>>)

\* the spheres of tests::closest_intersection_works, then a copy of the first
\* one and a sphere that touches it; the first sphere is not reflective
SceneRow ==
    Scene(Color(100, 100, 100),
          <<Light(700, Directional(V(0, 0, 0 - 1))),
            Light(600, Point(V(0, 2, 1)))>>,
          <<Sphere(V(0, 0, 3), F(1), Material(red, Some(10), 0)),
            Sphere(V(0, 0, 7), F(2), Material(green, None, 300)),
            Sphere(V(0, 0, 3), F(1), Material(blue, None, 500)),
            Sphere(V(0, 2, 3), F(1), Material(Color(F(1), F(1), 0), Some(1), 400))>>)

\* the scene of raytracing() without its ground sphere, the lights moved closer
SceneLib ==
    Scene(BLACK,
          <<Light(200, Ambient),
            Light(600, Point(V(2, 1, 0))),
            Light(200, Directional(V(1, 2, 2)))>>,
          <<Sphere(V(0, 0 - 1, 3), F(1), Material(red, Some(10), 200)),
            Sphere(V(2, 0, 4), F(1), Material(blue, Some(10), 300)),
            Sphere(V(0 - 2, 0, 4), F(1), Material(green, Some(2), 400))>>)

\* a point light on the surface of the second sphere, and a directional light
\* that shines along the line from (0, 0, 1), on the first sphere, to it
SceneShadow ==
    Scene(BLACK,
          <<Light(600, Point(V(3, 0, 4))),
            Light(300, Directional(V(3, 0, 3)))>>,
          <<Sphere(V(0, 0, 0), F(1), Material(red, Some(2), 0)),
            Sphere(V(3, 0, 5), F(1), Material(green, None, 0))>>)

Scenes == {SceneTwo, SceneMirrors, SceneRow, SceneLib, SceneShadow}

Grid == {0 - 1, 0, 1}

Directions ==
    ({V(dx, dy, dz) : dx \in Grid, dy \in Grid, dz \in Grid} \ {V(0, 0, 0)})
        \cup {Vec3(100, 200, 2000)}

Origins == {V(0, 0, 0), V(0, 0 - 2, 3), V(1, 0, 0), Vec3(100, 200, 300)}

Rays == {Ray(o, d) : o \in Origins, d \in Directions}

Ranges ==
    {Range(0, INFINITY), Range(F(1), INFINITY), Range(EPSILON, INFINITY),
     Range(F(3), INFINITY), Range(F(5), INFINITY), Range(F(10), INFINITY),
     Range(NEG_INFINITY, F(1)), Range(EPSILON, F(1)), Range(F(2), F(4))}

\* the rays and ranges trace_ray is called with directly
TraceRays ==
    {Ray(o, d) : o \in {V(0, 0, 0), V(0, 0 - 2, 3)},
                 d \in {V(0, 0, 1), V(0, 1, 0), V(0, 0, 0 - 1), V(0, 1, 1),
                        V(1, 0, 1), Vec3(100, 200, 2000)}}

TraceRanges == {Range(0, INFINITY), Range(F(1), INFINITY), Range(F(3), INFINITY)}

Budgets == (0 - 1) .. MaxDepth

\* the arguments compute_lighting is called with directly
Points == {V(0, 0, 1), V(0, 0, 3), V(0, 0, 2), V(0, 1, 3), Vec3(0, 0 - 1000, 2000)}

Normals == {V(0, 0, 1), V(0, 0, 0 - 1), V(0, 1, 0), Vec3(0, 600, 800), V(1, 1, 0)}

Views == {V(0, 0, 1), V(0, 0, 0 - 1), V(0, 1, 1)}

Speculars == {None, Some(2), Some(1), Some(0)}

CanvasSizes == 0 .. MaxCanvas

\* the normals reflect_ray is called with: the (0, 1, 0) of
\* tests::reflect_ray_works, four more unit vectors that the model represents
\* exactly, and two vectors that are not unit vectors
ReflectNormals ==
    {V(0, 1, 0), V(0, 0, 1), V(0 - 1, 0, 0), Vec3(600, 800, 0), Vec3(0, 0 - 600, 800),
     V(1, 1, 0), V(0, 0, 2)}

\* the rays reflect_ray is called with: the grid, and multiples of the normals
ReflectRays ==
    {V(dx, dy, dz) : dx \in Grid, dy \in Grid, dz \in Grid}
        \cup {MulV(f, n) : f \in {2 * SCALE, 0 - SCALE, SCALE \div 2}, n \in ReflectNormals}

\* the channel values to_u8 is called with: those of tests::to_u8_works and
\* tests::color_u8 that the model holds, values next to the steps of the result,
\* large values and the infinities
Channels ==
    {0 - 500, 0, 1, 500, 999, F(1), 1500, 250, 750, 0 - 1100, 99900, 3, 4, 996, 997,
     F(1000), 0 - F(1000), INFINITY, NEG_INFINITY}

\* the colors Color::to_u8 is called with: every pair of channel values in
\* every pair of channels
ChannelColors ==
    UNION {{Color(a, b, 750), Color(750, a, b), Color(b, 750, a)} : a \in Channels, b \in Channels}

\* the number of put_pixel calls made on one canvas
MaxPuts == 2

\* the sizes <<width, height>> of the canvases put_pixel is called on: the 4 x 2
\* of tests::canvas_put_pixel, then odd, single and empty sides
CanvasShapes == {<<4, 2>>, <<3, 2>>, <<2, 2>>, <<3, 3>>, <<1, 1>>, <<1, 4>>, <<0, 3>>, <<0, 0>>}

\* the coordinates put_pixel is called with: those of every grid of
\* CanvasShapes, and one more on either side of the widest
Coordinates == (0 - 3) .. 2

\* the colors put_pixel is called with
PutColors == {red, Color(SCALE \div 2, SCALE \div 2, SCALE \div 2)}

\* ------------------------------------------------------------------ state

VARIABLES
    scene,      \* the Scene, read-only
    pc,         \* "idle", the function that runs, or "done"
    op,         \* the function that was called
    args,       \* its arguments
    result,     \* the value it returned
    stack,      \* the trace_ray invocations that have not returned, innermost last
    ret,        \* the color the last trace_ray invocation returned, not yet consumed
    calls,      \* the trace_ray invocations since the outermost call, in call order
    i,          \* compute_lighting: the intensity so far
    next_light, \* compute_lighting: the index of the next light
    canvas,     \* the Canvas of go, or the one put_pixel is called on
    writes,     \* for every cell of canvas.pixels, how often it has been assigned
    nputs,      \* the number of calls of put_pixel on canvas
    loop        \* go: the loop variables x, y, indexes xo, yo into offset, average_color

vars ==
    <<scene, pc, op, args, result, stack, ret, calls, i, next_light, canvas, writes, nputs,
      loop>>

NoArgs == [none |-> TRUE]

LoopInit == [x |-> 0, y |-> 0, xo |-> 1, yo |-> 1, average_color |-> BLACK]

Init ==
    /\ scene \in Scenes
    /\ pc = "idle"
    /\ op = "none"
    /\ args = NoArgs
    /\ result = None
    /\ stack = <<>>
    /\ ret = None
    /\ calls = <<>>
    /\ i = 0
    /\ next_light = 1
    /\ canvas = CanvasNew(0, 0)
    /\ writes = NoWrites(canvas)
    /\ nputs = 0
    /\ loop = LoopInit

\* one invocation of trace_ray, before its closest_intersection
Frame(ray, t_range, depth) ==
    [ray |-> ray, t_range |-> t_range, recursion_depth |-> depth,
     waiting |-> FALSE, local_color |-> BLACK, r |-> 0]

Call(ray, t_range, depth) ==
    [ray |-> ray, t_range |-> t_range, recursion_depth |-> depth, result |-> None]

Top == stack[Len(stack)]

Pop == SubSeq(stack, 1, Len(stack) - 1)

TopHit == closest_intersection(scene, Top.ray, Top.t_range)

\* the invocation on top of the stack returns color
Returns(color) ==
    /\ ret' = Some(color)
    /\ stack' = Pop
    /\ calls' = [calls EXCEPT ![Len(stack)].result = Some(color)]

\* ------------------------------------------------------------------ calls

\* Sphere::intersect_ray is called
CallIntersectRay(sphere, ray) ==
    /\ pc = "idle"
    /\ pc' = "done"
    /\ op' = "intersect_ray"
    /\ args' = [sphere |-> sphere, ray |-> ray]
    /\ result' = intersect_ray(sphere, ray)
    /\ UNCHANGED <<scene, stack, ret, calls, i, next_light, canvas, writes, nputs, loop>>

\* reflect_ray is called
CallReflectRay(r, n) ==
    /\ pc = "idle"
    /\ pc' = "done"
    /\ op' = "reflect_ray"
    /\ args' = [r |-> r, n |-> n]
    /\ result' = reflect_ray(r, n)
    /\ UNCHANGED <<scene, stack, ret, calls, i, next_light, canvas, writes, nputs, loop>>

\* Color::to_u8 is called
CallToU8(color) ==
    /\ pc = "idle"
    /\ pc' = "done"
    /\ op' = "to_u8"
    /\ args' = [color |-> color]
    /\ result' = ColorToU8(color)
    /\ UNCHANGED <<scene, stack, ret, calls, i, next_light, canvas, writes, nputs, loop>>

\* closest_intersection is called
CallClosestIntersection(ray, t_range) ==
    /\ pc = "idle"
    /\ pc' = "done"
    /\ op' = "closest_intersection"
    /\ args' = [ray |-> ray, t_range |-> t_range]
    /\ result' = closest_intersection(scene, ray, t_range)
    /\ UNCHANGED <<scene, stack, ret, calls, i, next_light, canvas, writes, nputs, loop>>

\* compute_lighting is called: i = 0.0 before the loop
CallComputeLighting(p, n, v, specular) ==
    /\ pc = "idle"
    /\ pc' = "compute_lighting"
    /\ op' = "compute_lighting"
    /\ args' = [p |-> p, n |-> n, v |-> v, specular |-> specular]
    /\ i' = 0
    /\ next_light' = 1
    /\ UNCHANGED <<scene, result, stack, ret, calls, canvas, writes, nputs, loop>>

\* compute_lighting: one pass of the loop over scene.lights
LightingStep ==
    /\ pc = "compute_lighting"
    /\ next_light <= Len(scene.lights)
    /\ i' = LightingVisit(i, scene, scene.lights[next_light],
                          args.p, args.n, args.v, args.specular)
    /\ next_light' = next_light + 1
    /\ UNCHANGED <<scene, pc, op, args, result, stack, ret, calls, canvas, writes, nputs, loop>>

\* compute_lighting returns i
LightingReturn ==
    /\ pc = "compute_lighting"
    /\ next_light > Len(scene.lights)
    /\ result' = i
    /\ pc' = "done"
    /\ UNCHANGED <<scene, op, args, stack, ret, calls, i, next_light, canvas, writes, nputs, loop>>

\* trace_ray is called
CallTraceRay(ray, t_range, depth) ==
    /\ pc = "idle"
    /\ pc' = "trace_ray"
    /\ op' = "trace_ray"
    /\ args' = [ray |-> ray, t_range |-> t_range, recursion_depth |-> depth]
    /\ stack' = <<Frame(ray, t_range, depth)>>
    /\ calls' = <<Call(ray, t_range, depth)>>
    /\ UNCHANGED <<scene, result, ret, i, next_light, canvas, writes, nputs, loop>>

\* trace_ray: nothing is hit, the background color is returned
TraceMiss ==
    /\ stack # <<>>
    /\ ~Top.waiting
    /\ TopHit = None
    /\ Returns(MissColor(scene))
    /\ UNCHANGED <<scene, pc, op, args, result, i, next_light, canvas, writes, nputs, loop>>

\* trace_ray: a sphere is hit and the local color is returned
TraceLocal ==
    /\ stack # <<>>
    /\ ~Top.waiting
    /\ TopHit # None
    /\ NoReflection(Top.recursion_depth, TopHit[1].sphere.material.reflective)
    /\ Returns(LocalColor(scene, Top.ray, TopHit[1]))
    /\ UNCHANGED <<scene, pc, op, args, result, i, next_light, canvas, writes, nputs, loop>>

\* trace_ray: a sphere is hit and trace_ray is called for the reflected ray
TraceReflect ==
    /\ stack # <<>>
    /\ ~Top.waiting
    /\ TopHit # None
    /\ ~NoReflection(Top.recursion_depth, TopHit[1].sphere.material.reflective)
    /\ LET hit == TopHit[1]
           here == [Top EXCEPT !.waiting = TRUE,
                               !.local_color = LocalColor(scene, Top.ray, hit),
                               !.r = hit.sphere.material.reflective]
           ray == ReflectedRay(Top.ray, hit)
           depth == ReflectedDepth(Top.recursion_depth)
       IN  /\ stack' = Append(Append(Pop, here), Frame(ray, ReflectedRange, depth))
           /\ calls' = Append(calls, Call(ray, ReflectedRange, depth))
    /\ UNCHANGED <<scene, pc, op, args, result, ret, i, next_light, canvas, writes, nputs, loop>>

\* trace_ray: the recursive call has returned, the blended color is returned
TraceBlend ==
    /\ stack # <<>>
    /\ Top.waiting
    /\ ret # None
    /\ Returns(Blend(Top.local_color, ret[1], Top.r))
    /\ UNCHANGED <<scene, pc, op, args, result, i, next_light, canvas, writes, nputs, loop>>

\* the outermost trace_ray has returned to its caller
TraceReturn ==
    /\ pc = "trace_ray"
    /\ stack = <<>>
    /\ ret # None
    /\ result' = ret[1]
    /\ ret' = None
    /\ pc' = "done"
    /\ UNCHANGED <<scene, op, args, stack, calls, i, next_light, canvas, writes, nputs, loop>>

\* ------------------------------------------------------------------ Canvas

\* Canvas::new is called
CallCanvasNew(width, height) ==
    /\ pc = "idle"
    /\ pc' = "canvas"
    /\ op' = "put_pixel"
    /\ args' = [width |-> width, height |-> height]
    /\ canvas' = CanvasNew(width, height)
    /\ writes' = NoWrites(canvas')
    /\ nputs' = 0
    /\ UNCHANGED <<scene, result, stack, ret, calls, i, next_light, loop>>

\* Canvas::put_pixel is called on the canvas
CallPutPixel(x, y, color) ==
    /\ pc = "canvas"
    /\ nputs < MaxPuts
    /\ args' = [x |-> x, y |-> y, color |-> color]
    /\ nputs' = nputs + 1
    /\ IF Panics(canvas, x, y)
       THEN /\ pc' = "panic"
            /\ UNCHANGED <<canvas, writes>>
       ELSE /\ pc' = pc
            /\ canvas' = put_pixel(canvas, x, y, color)
            /\ writes' = Written(writes, canvas, x, y)
    /\ UNCHANGED <<scene, op, result, stack, ret, calls, i, next_light, loop>>

\* ------------------------------------------------------------------ Raytracer::go

Raytracer(canvas_width, canvas_height) ==
    [canvas_width |-> canvas_width, canvas_height |-> canvas_height,
     viewport_width |-> F(1), viewport_height |-> F(1),
     distance_to_projection_plane |-> F(1)]

\* cw / 2 and ch / 2, the ends of the loops over x and y
HalfWidth == IDiv(args.canvas_width, 2)

HalfHeight == IDiv(args.canvas_height, 2)

\* -ch / 2, where the loop over y starts
FirstY == IDiv(0 - args.canvas_height, 2)

\* go is called: the canvas is created and the loop over x starts
Go(canvas_width, canvas_height) ==
    /\ pc = "idle"
    /\ pc' = "go"
    /\ op' = "go"
    /\ args' = Raytracer(canvas_width, canvas_height)
    /\ canvas' = CanvasNew(canvas_width, canvas_height)
    /\ writes' = NoWrites(canvas')
    /\ nputs' = 0
    /\ loop' = [LoopInit EXCEPT !.x = IDiv(0 - canvas_width, 2),
                                !.y = IDiv(0 - canvas_height, 2)]
    /\ calls' = <<>>
    /\ UNCHANGED <<scene, result, stack, ret, i, next_light>>

\* go: trace_ray is called for the next sample of the pixel
GoSample ==
    /\ pc = "go"
    /\ stack = <<>>
    /\ ret = None
    /\ loop.x < HalfWidth
    /\ loop.y < HalfHeight
    /\ loop.xo <= Len(offset)
    /\ LET ray == SampleRay(args, loop.x, loop.y, loop.xo, loop.yo)
       IN  /\ stack' = <<Frame(ray, SampleRange, recursion_depth)>>
           /\ calls' = <<Call(ray, SampleRange, recursion_depth)>>
    /\ UNCHANGED <<scene, pc, op, args, result, ret, i, next_light, canvas, writes, nputs, loop>>

\* go: the sample's color is added to the average, the loops over the offsets advance
GoAccumulate ==
    /\ pc = "go"
    /\ stack = <<>>
    /\ ret # None
    /\ loop' = [loop EXCEPT
                  !.average_color = ColorAdd(@, ColorMul(ret[1], SampleWeight)),
                  !.yo = IF @ < Len(offset) THEN @ + 1 ELSE 1,
                  !.xo = IF loop.yo < Len(offset) THEN @ ELSE @ + 1]
    /\ ret' = None
    /\ UNCHANGED <<scene, pc, op, args, result, stack, calls, i, next_light, canvas, writes, nputs>>

\* the next pass with the average of the pixel before it carried over
NextPixelKeepsAverage(lp) == [lp EXCEPT !.y = @ + 1, !.xo = 1, !.yo = 1]

\* go: the next pass of the loop over y, average_color starting at BLACK
NextPixel(lp) == [LoopInit EXCEPT !.x = lp.x, !.y = lp.y + 1]

\* go: the pixel is written and the loop over y advances
GoPutPixel ==
    /\ pc = "go"
    /\ ret = None
    /\ loop.x < HalfWidth
    /\ loop.y < HalfHeight
    /\ loop.xo > Len(offset)
    /\ nputs' = nputs + 1
    /\ IF Panics(canvas, loop.x, loop.y)
       THEN /\ pc' = "panic"
            /\ UNCHANGED <<canvas, writes, loop>>
       ELSE /\ pc' = pc
            /\ canvas' = put_pixel(canvas, loop.x, loop.y, loop.average_color)
            /\ writes' = Written(writes, canvas, loop.x, loop.y)
            /\ loop' = NextPixel(loop)
    /\ UNCHANGED <<scene, op, args, result, stack, ret, calls, i, next_light>>

\* go: the loop over y has ended, the loop over x advances
GoNextColumn ==
    /\ pc = "go"
    /\ loop.x < HalfWidth
    /\ loop.y >= HalfHeight
    /\ loop' = [loop EXCEPT !.x = @ + 1, !.y = FirstY]
    /\ UNCHANGED <<scene, pc, op, args, result, stack, ret, calls, i, next_light, canvas, writes, nputs>>

\* go: the loop over x has ended, the canvas is returned
GoReturn ==
    /\ pc = "go"
    /\ loop.x >= HalfWidth
    /\ result' = canvas
    /\ pc' = "done"
    /\ UNCHANGED <<scene, op, args, stack, ret, calls, i, next_light, canvas, writes, nputs, loop>>

\* ------------------------------------------------------------------ specification

Next ==
    \/ \E sphere \in {scene.spheres[j] : j \in 1 .. Len(scene.spheres)}, ray \in Rays :
           CallIntersectRay(sphere, ray)
    \/ \E r \in ReflectRays, n \in ReflectNormals : CallReflectRay(r, n)
    \/ \E color \in ChannelColors : CallToU8(color)
    \/ \E ray \in Rays, t_range \in Ranges : CallClosestIntersection(ray, t_range)
    \/ \E p \in Points, n \in Normals, v \in Views, specular \in Speculars :
           CallComputeLighting(p, n, v, specular)
    \/ LightingStep
    \/ LightingReturn
    \/ \E ray \in TraceRays, t_range \in TraceRanges, depth \in Budgets :
           CallTraceRay(ray, t_range, depth)
    \/ TraceMiss
    \/ TraceLocal
    \/ TraceReflect
    \/ TraceBlend
    \/ TraceReturn
    \/ \E shape \in CanvasShapes : CallCanvasNew(shape[1], shape[2])
    \/ \E x \in Coordinates, y \in Coordinates, color \in PutColors : CallPutPixel(x, y, color)
    \/ \E canvas_width \in CanvasSizes, canvas_height \in CanvasSizes :
           Go(canvas_width, canvas_height)
    \/ GoSample
    \/ GoAccumulate
    \/ GoPutPixel
    \/ GoNextColumn
    \/ GoReturn

Spec == Init /\ [][Next]_vars

\* ------------------------------------------------------------------ properties

\* t is inside the half-open range [start, end)
InRange(t_range, t) == t_range.start <= t /\ t < t_range.end

Indexes(seq) == 1 .. Len(seq)

\* the pairs <<j, t>> of a sphere's index in sc.spheres and a value t of that
\* sphere for the ray that is inside the range
InRangeHits(sc, ray, t_range) ==
    UNION {LET ts == intersect_ray(sc.spheres[j], ray)
           IN  {<<j, ts[m]>> : m \in {m \in Indexes(ts) : InRange(t_range, ts[m])}}
           : j \in Indexes(sc.spheres)}

ClosestDone == pc = "done" /\ op = "closest_intersection"

\* C5: closest_intersection returns Some((s, t)) exactly when some sphere has a
\* value inside [t_min, t_max); t is then the smallest such value over all
\* spheres and all their values, and t is a value of the returned sphere s.
\* It returns None exactly when no value of any sphere is inside the range.
C5_ClosestIsSmallestInRange ==
    ClosestDone =>
        LET hits == InRangeHits(scene, args.ray, args.t_range)
        IN  /\ (result # None) <=> (hits # {})
            /\ (result = None) <=> (hits = {})
            /\ result # None =>
                   /\ \E h \in hits : /\ h[2] = result[1].t
                                      /\ scene.spheres[h[1]] = result[1].sphere
                   /\ \A h \in hits : result[1].t <= h[2]

\* a sphere is returned with its farther value, its nearer one being out of range,
\* and the value returned is the start of the range
C5_Witness ==
    /\ ClosestDone
    /\ result # None
    /\ LET ts == intersect_ray(result[1].sphere, args.ray)
       IN  /\ Len(ts) = 2
           /\ ~InRange(args.t_range, ts[1])
           /\ result[1].t = ts[2]
           /\ result[1].t = args.t_range.start

\* the indexes of the spheres that have the value t inside the range
SpheresAt(sc, ray, t_range, t) == {h[1] : h \in {g \in InRangeHits(sc, ray, t_range) : g[2] = t}}

Least(S) == CHOOSE j \in S : \A m \in S : j <= m

\* C6: when two or more spheres have an in-range value at the same smallest t,
\* closest_intersection returns the one that comes first in scene.spheres.
C6_TieGoesToFirstSphere ==
    (ClosestDone /\ result # None) =>
        LET tied == SpheresAt(scene, args.ray, args.t_range, result[1].t)
        IN  /\ tied # {}
            /\ result[1].sphere = scene.spheres[Least(tied)]

\* two different spheres are tied at the smallest value
C6_Witness ==
    /\ ClosestDone
    /\ result # None
    /\ \E j, m \in SpheresAt(scene, args.ray, args.t_range, result[1].t) :
           scene.spheres[j] # scene.spheres[m]

IntersectDone == pc = "done" /\ op = "intersect_ray"

\* b^2 - 4ac for the sphere and the ray
Discriminant(sphere, ray) ==
    LET co == Sub(ray.origin, sphere.center)
        a == dot(ray.direction, ray.direction)
        b == 2 * dot(co, ray.direction)
        c == dot(co, co) - FMul(sphere.radius, sphere.radius)
    IN  FMul(b, b) - FMul(4 * a, c)

\* -b / (2a) for the sphere and the ray
MinusBOver2A(sphere, ray) ==
    LET co == Sub(ray.origin, sphere.center)
        a == dot(ray.direction, ray.direction)
        b == 2 * dot(co, ray.direction)
    IN  FDiv(0 - b, 2 * a)

\* C10: for a ray with non-zero direction intersect_ray returns 0, 1 or 2 values
\* sorted ascending: none when the discriminant is negative, the one value
\* -b/(2a) when it is zero, two when it is positive, negative values included.
C10_IntersectRayRoots ==
    (IntersectDone /\ args.ray.direction # V(0, 0, 0)) =>
        LET d == Discriminant(args.sphere, args.ray)
        IN  /\ Len(result) \in {0, 1, 2}
            /\ \A m \in Indexes(result) : m > 1 => result[m - 1] <= result[m]
            /\ d < 0 => result = <<>>
            /\ d = 0 => result = <<MinusBOver2A(args.sphere, args.ray)>>
            /\ d > 0 => Len(result) = 2

\* the ray touches the sphere: one value
C10_Witness ==
    /\ IntersectDone
    /\ Discriminant(args.sphere, args.ray) = 0
    /\ Len(result) = 1

\* the sphere is behind the origin of the ray: two negative values
C10_WitnessNegative ==
    /\ IntersectDone
    /\ Len(result) = 2
    /\ result[2] < 0

\* compute_lighting is about to visit a light
AtLight == pc = "compute_lighting" /\ next_light <= Len(scene.lights)

ThisLight == scene.lights[next_light]

IsAmbient(light) == light.source.kind = "Ambient"

\* the shadow ray from p towards the light meets a sphere inside the shadow range
ShadowRayHits(sc, light, p) ==
    InRangeHits(sc, Ray(p, LightVector(light, p)), Range(EPSILON, LightTMax(light))) # {}

\* C7: a point or directional light whose shadow ray from p meets any sphere
\* inside the shadow range adds nothing to the result of compute_lighting.
C7_ShadowedLightAddsNothing ==
    [][(AtLight /\ ~IsAmbient(ThisLight) /\ ShadowRayHits(scene, ThisLight, args.p))
           => i' = i]_vars

\* the light visited last is in shadow, and the surface faces it
C7_Witness ==
    /\ pc = "compute_lighting"
    /\ next_light > 1
    /\ LET light == scene.lights[next_light - 1]
       IN  /\ ~IsAmbient(light)
           /\ ShadowRayHits(scene, light, args.p)
           /\ dot(args.n, LightVector(light, args.p)) > 0
           /\ args.specular # None

RECURSIVE SumOfIntensities(_, _)
SumOfIntensities(lights, m) ==
    IF m = 0 THEN 0 ELSE SumOfIntensities(lights, m - 1) + lights[m].intensity

LightingDone == pc = "done" /\ op = "compute_lighting"

OnlyAmbient(sc) == \A m \in Indexes(sc.lights) : IsAmbient(sc.lights[m])

\* C8: every ambient light adds exactly its intensity to the result of
\* compute_lighting, whatever p, n, v, the exponent and the spheres are; a scene
\* whose only lights are ambient yields the sum of their intensities.
C8_AmbientAddsIntensity ==
    /\ [][(AtLight /\ IsAmbient(ThisLight)) => i' = i + ThisLight.intensity]_vars
    /\ [](LightingDone /\ OnlyAmbient(scene)
              => result = SumOfIntensities(scene.lights, Len(scene.lights)))

\* an ambient light has been added to what the lights before it gave, at a point
\* where the lights of the other kinds are in shadow
C8_Witness ==
    /\ pc = "compute_lighting"
    /\ next_light > 2
    /\ IsAmbient(scene.lights[next_light - 1])
    /\ i > scene.lights[next_light - 1].intensity
    /\ \E m \in Indexes(scene.lights) :
           ~IsAmbient(scene.lights[m]) /\ ShadowRayHits(scene, scene.lights[m], args.p)

\* the diffuse term: intensity * (n.l) / (|n| * |l|) when n.l > 0
DiffuseTerm(intensity, n, l) ==
    IF dot(n, l) > 0 THEN FDiv(FMul(intensity, dot(n, l)), FMul(len(n), len(l))) ELSE 0

\* the reflection of the light vector l about n: 2 * n * (n.l) - l
Reflection(l, n) == Sub(MulV(dot(n, l), MulV(F(2), n)), l)

\* the specular term: intensity * ((r.v) / (|r| * |v|)) ^ exponent when r.v > 0
SpecularTerm(intensity, n, l, v, specular) ==
    LET r == Reflection(l, n)
    IN  IF specular = None \/ dot(r, v) <= 0 THEN 0
        ELSE FMul(intensity, FPowi(FDiv(dot(r, v), FMul(len(r), len(v))), specular[1]))

\* C9: an unshadowed point or directional light adds exactly diffuse + specular
\* to the result of compute_lighting; with the exponent absent it adds the diffuse
\* term alone; the result is the plain sum over the lights, with no clamping.
C9_UnshadowedLightAddsDiffuseAndSpecular ==
    /\ [][(AtLight /\ ~IsAmbient(ThisLight) /\ ~ShadowRayHits(scene, ThisLight, args.p)) =>
              LET l == LightVector(ThisLight, args.p)
                  diffuse == DiffuseTerm(ThisLight.intensity, args.n, l)
                  specular == SpecularTerm(ThisLight.intensity, args.n, l, args.v,
                                           args.specular)
              IN  /\ i' = i + diffuse + specular
                  /\ args.specular = None => i' = i + diffuse]_vars
    /\ [][(pc = "compute_lighting" /\ next_light > Len(scene.lights)) => result' = i]_vars

\* an unshadowed light has added a diffuse and a specular term, both positive,
\* and the intensity so far is above 1.0
C9_Witness ==
    /\ pc = "compute_lighting"
    /\ next_light > 1
    /\ LET light == scene.lights[next_light - 1]
           l == LightVector(light, args.p)
       IN  /\ ~IsAmbient(light)
           /\ ~ShadowRayHits(scene, light, args.p)
           /\ DiffuseTerm(light.intensity, args.n, l) > 0
           /\ SpecularTerm(light.intensity, args.n, l, args.v, args.specular) > 0
           /\ i > F(1)

\* an unshadowed light has been visited whose surface faces away from it
C9_WitnessFacingAway ==
    /\ pc = "compute_lighting"
    /\ next_light > 1
    /\ LET light == scene.lights[next_light - 1]
           l == LightVector(light, args.p)
       IN  /\ ~IsAmbient(light)
           /\ ~ShadowRayHits(scene, light, args.p)
           /\ dot(args.n, l) < 0

\* a trace_ray invocation has just returned: it is calls[Returned]
HasReturned == ret # None

Returned == Len(stack) + 1

\* what closest_intersection gives the invocation c of trace_ray
HitOf(sc, c) == closest_intersection(sc, c.ray, c.t_range)

\* the point p = origin + t * direction where the ray of c meets the sphere
PointOf(c, hit) == Add(c.ray.origin, MulV(hit.t, c.ray.direction))

\* the unit normal of the sphere at p
NormalOf(c, hit) == normalized(Sub(PointOf(c, hit), hit.sphere.center))

\* the material color scaled by compute_lighting at the hit point
LocalOf(sc, c, hit) ==
    ColorMul(hit.sphere.material.color,
             compute_lighting(sc, PointOf(c, hit), NormalOf(c, hit),
                              Neg(c.ray.direction), hit.sphere.material.specular))

\* C1: trace_ray with a ray that hits a sphere of reflectivity r > 0 and with
\* budget d >= 1 returns local_color * (1 - r) + reflected_color * r, where
\* reflected_color is what trace_ray returns for the ray from p in the direction
\* reflect_ray(ray.direction, n), the range from 0.001 on, and the budget d - 1.
C1_ReflectiveHitBlends ==
    HasReturned =>
        LET c == calls[Returned]
            found == HitOf(scene, c)
        IN  (/\ found # None
             /\ found[1].sphere.material.reflective > 0
             /\ c.recursion_depth >= 1) =>
                LET hit == found[1]
                    r == hit.sphere.material.reflective
                    local_color == LocalOf(scene, c, hit)
                IN  /\ Returned < Len(calls)
                    /\ LET nested == calls[Returned + 1]
                       IN  /\ nested.ray = Ray(PointOf(c, hit),
                                               reflect_ray(c.ray.direction, NormalOf(c, hit)))
                           /\ nested.t_range = Range(SCALE \div 1000, INFINITY)
                           /\ nested.recursion_depth = c.recursion_depth - 1
                           /\ nested.result # None
                           /\ ret = Some(ColorAdd(ColorMul(local_color, F(1) - r),
                                                  ColorMul(nested.result[1], r)))
                    /\ c.result = ret

\* a reflective sphere was hit with budget >= 1, the reflected ray hit a sphere
\* too, and the color returned is neither the local nor the reflected one
C1_Witness ==
    /\ HasReturned
    /\ Returned < Len(calls)
    /\ calls[Returned].recursion_depth >= 1
    /\ HitOf(scene, calls[Returned + 1]) # None
    /\ ret[1] # calls[Returned + 1].result[1]
    /\ ret[1] # LocalOf(scene, calls[Returned], HitOf(scene, calls[Returned])[1])

\* the scene with the reflectivity of every sphere set to r
WithReflective(sc, r) ==
    [sc EXCEPT !.spheres = [m \in Indexes(sc.spheres) |->
                                [sc.spheres[m] EXCEPT !.material.reflective = r]]]

\* what trace_ray returns when it reflects nothing
Unreflected(sc, c) ==
    IF HitOf(sc, c) = None THEN sc.background_color ELSE LocalOf(sc, c, HitOf(sc, c)[1])

\* C2: when trace_ray hits a sphere and the budget is <= 0 or the reflectivity
\* is <= 0, it returns the local color and calls trace_ray for no reflected ray;
\* with budget 0 the result is the same whatever the reflectivity of the spheres.
C2_NoReflectionReturnsLocal ==
    HasReturned =>
        LET c == calls[Returned]
            found == HitOf(scene, c)
        IN  /\ (/\ found # None
                /\ \/ c.recursion_depth <= 0
                   \/ found[1].sphere.material.reflective <= 0) =>
                   /\ ret = Some(LocalOf(scene, c, found[1]))
                   /\ c.result = ret
                   /\ Len(calls) = Returned
            /\ c.recursion_depth = 0 =>
                   \A r \in {0, SCALE \div 2, SCALE} :
                       ret = Some(Unreflected(WithReflective(scene, r), c))

\* a reflective sphere was hit with budget 0, by the outermost call
C2_Witness ==
    /\ HasReturned
    /\ Returned = 1
    /\ calls[1].recursion_depth = 0
    /\ HitOf(scene, calls[1]) # None
    /\ HitOf(scene, calls[1])[1].sphere.material.reflective > 0
    /\ Len(calls) = 1

\* a sphere that is not reflective was hit with budget >= 1
C2_WitnessNotReflective ==
    /\ HasReturned
    /\ calls[Returned].recursion_depth >= 1
    /\ HitOf(scene, calls[Returned]) # None
    /\ HitOf(scene, calls[Returned])[1].sphere.material.reflective = 0

\* C3: if no sphere has a value t inside the range, trace_ray returns exactly
\* the background color of the scene.
C3_MissReturnsBackground ==
    HasReturned =>
        LET c == calls[Returned]
        IN  InRangeHits(scene, c.ray, c.t_range) = {} =>
                /\ ret = Some(scene.background_color)
                /\ c.result = ret

\* the outermost call found nothing in range although the ray meets a sphere,
\* in a scene whose background is not black
C3_Witness ==
    /\ HasReturned
    /\ Returned = 1
    /\ InRangeHits(scene, calls[1].ray, calls[1].t_range) = {}
    /\ InRangeHits(scene, calls[1].ray, Range(NEG_INFINITY, INFINITY)) # {}
    /\ scene.background_color # BLACK
    /\ ret = Some(scene.background_color)

\* the chain of nested invocations of a call with budget d >= 0 has at most
\* d + 1 members, each with the budget of its caller less one
ChainBounded ==
    (calls # <<>> /\ calls[1].recursion_depth >= 0) =>
        /\ Len(calls) <= calls[1].recursion_depth + 1
        /\ Len(stack) <= Len(calls)
        /\ \A m \in Indexes(calls) :
               m > 1 => calls[m].recursion_depth = calls[m - 1].recursion_depth - 1

\* go calls trace_ray with budget 3
GoBudget == (pc = "go" /\ calls # <<>>) => calls[1].recursion_depth = 3

\* a trace_ray that has not returned can take a step: the innermost invocation
\* is at its closest_intersection, or it waits for a nested call that has just
\* returned; and a trace_ray that has returned hands its color to its caller
CanStep ==
    /\ stack # <<>> =>
           /\ Top.waiting <=> ret # None
           /\ \A m \in Indexes(stack) : m < Len(stack) => stack[m].waiting
    /\ (stack = <<>> /\ pc = "trace_ray") => ret # None

\* a bound on the number of steps a trace_ray that has not returned still takes:
\* one for every invocation that waits, and for the innermost invocation, if it
\* has yet to look for a hit, two for every unit of its budget and one more
StepsLeft ==
    IF stack = <<>> THEN 0
    ELSE IF Top.waiting THEN Len(stack)
    ELSE Len(stack) + 1 + 2 * (IF Top.recursion_depth > 0 THEN Top.recursion_depth ELSE 0)

\* C4: trace_ray with budget d >= 0 terminates for every scene, the chain of
\* nested invocations has at most d + 1 members, each nested call has the budget
\* of its caller less one, and go starts every sample with budget 3.
\* Termination: a trace_ray that has not returned can always take a step, and
\* every step it takes makes StepsLeft, which is never negative, smaller.
C4_TraceRayTerminatesWithinBudget ==
    /\ [](ChainBounded /\ GoBudget /\ CanStep /\ StepsLeft >= 0)
    /\ [][stack # <<>> => StepsLeft' < StepsLeft]_vars

\* between two perfect mirrors a call with budget >= 3 has returned after
\* a chain of budget + 1 invocations
C4_Witness ==
    /\ pc = "done"
    /\ op = "trace_ray"
    /\ args.recursion_depth >= 3
    /\ Len(calls) = args.recursion_depth + 1
    /\ \A m \in Indexes(scene.spheres) : scene.spheres[m].material.reflective = F(1)

\* a step that is a call of put_pixel on the canvas; its arguments are args'
PutPixelCalled == pc = "canvas" /\ nputs' = nputs + 1

\* (x, y) is outside the centered grid of a canvas of this width and height
Outside(width, height, x, y) ==
    \/ x < 0 - (width \div 2)
    \/ x >= width \div 2
    \/ y < 0 - (height \div 2)
    \/ y >= height \div 2

\* C11: put_pixel(x, y, color) with x < -(width/2), x >= width/2, y < -(height/2)
\* or y >= height/2 leaves every pixel, the width and the height of the canvas
\* unchanged and raises no error, whatever calls of put_pixel came before.
C11_OutOfBoundsPutIsNoOp ==
    [][(PutPixelCalled /\ Outside(canvas.width, canvas.height, args'.x, args'.y)) =>
           /\ canvas' = canvas
           /\ pc' # "panic"]_vars

\* a canvas with a pixel set has had put_pixel called with x = width/2, the first
\* column right of the grid, and a color that no pixel has
C11_Witness ==
    /\ pc = "canvas"
    /\ nputs >= 2
    /\ args.x = canvas.width \div 2
    /\ args.y = 0 - (canvas.height \div 2)
    /\ \E k \in DOMAIN canvas.pixels : canvas.pixels[k] # BLACK
    /\ \A k \in DOMAIN canvas.pixels : canvas.pixels[k] # args.color

\* the cell of the row-major pixels of a canvas of this width and height that
\* holds row (height/2 - 1 - y), column (width/2 + x); cells are counted from 1
CellOf(width, height, x, y) ==
    ((height \div 2) - 1 - y) * width + ((width \div 2) + x) + 1

\* C12: put_pixel(x, y, color) with coordinates inside the grid sets exactly the
\* cell at row (height/2 - 1 - y), column (width/2 + x) of the row-major pixels to
\* color and leaves every other cell unchanged; x = -(width/2) is the left
\* column, y = height/2 - 1 the top row, which is stored first; the last write
\* to a coordinate wins.
C12_InRangePutSetsOneCell ==
    [][(PutPixelCalled /\ ~Outside(canvas.width, canvas.height, args'.x, args'.y)) =>
           LET width == canvas.width
               height == canvas.height
               cell == CellOf(width, height, args'.x, args'.y)
           IN  /\ cell \in DOMAIN canvas.pixels
               /\ canvas' = [canvas EXCEPT !.pixels =
                                [k \in DOMAIN canvas.pixels |->
                                    IF k = cell THEN args'.color ELSE canvas.pixels[k]]]
               /\ canvas'.pixels[cell] = args'.color
               /\ args'.x = 0 - (width \div 2) => (cell - 1) % width = 0
               /\ args'.y = (height \div 2) - 1 => cell <= width]_vars

\* the top left pixel of a canvas of odd width has been set twice, and another
\* pixel of the canvas keeps the color it had
C12_Witness ==
    /\ pc = "canvas"
    /\ nputs >= 2
    /\ canvas.width % 2 = 1
    /\ canvas.height > 1
    /\ args.x = 0 - (canvas.width \div 2)
    /\ args.y = (canvas.height \div 2) - 1
    /\ writes[1] = 2
    /\ canvas.pixels[1] = args.color
    /\ \E k \in DOMAIN canvas.pixels : k # 1 /\ canvas.pixels[k] = BLACK

GoDone == pc = "done" /\ op = "go"

RECURSIVE Traced(_, _)
\* the color of the ray, range and budget of c: the background on a miss, the
\* local color of the hit, or its blend with the color of the reflected ray
Traced(sc, c) ==
    LET found == HitOf(sc, c)
    IN  IF found = None THEN sc.background_color
        ELSE LET hit == found[1]
                 r == hit.sphere.material.reflective
                 local_color == LocalOf(sc, c, hit)
                 nested == [ray |-> Ray(PointOf(c, hit),
                                        reflect_ray(c.ray.direction, NormalOf(c, hit))),
                            t_range |-> Range(SCALE \div 1000, INFINITY),
                            recursion_depth |-> c.recursion_depth - 1]
             IN  IF c.recursion_depth <= 0 \/ r <= 0 THEN local_color
                 ELSE ColorAdd(ColorMul(local_color, F(1) - r),
                               ColorMul(Traced(sc, nested), r))

\* the color traced for pixel (x, y) at the sub-pixel offsets dx, dy (in 1/1000)
SampleColor(sc, rt, x, y, dx, dy) ==
    Traced(sc, [ray |-> Ray(V(0, 0, 0),
                            Vec3(FDiv(FMul(F(x) + dx, rt.viewport_width), F(rt.canvas_width)),
                                 FDiv(FMul(F(y) + dy, rt.viewport_height), F(rt.canvas_height)),
                                 rt.distance_to_projection_plane)),
                t_range |-> Range(F(1), INFINITY),
                recursion_depth |-> 3])

\* the five sub-pixel offsets -0.4, -0.2, 0.0, 0.2, 0.4
SubPixel(m) == (m - 3) * (SCALE \div 5)

\* the sample of pixel (x, y) at the offsets number m and n, with weight 0.04
Weighted(sc, rt, x, y, m, n) ==
    ColorMul(SampleColor(sc, rt, x, y, SubPixel(m), SubPixel(n)), SCALE \div 25)

\* the five weighted samples of pixel (x, y) at the x offset number m
SamplesAt(sc, rt, x, y, m) ==
    <<Weighted(sc, rt, x, y, m, 1), Weighted(sc, rt, x, y, m, 2), Weighted(sc, rt, x, y, m, 3),
      Weighted(sc, rt, x, y, m, 4), Weighted(sc, rt, x, y, m, 5)>>

RECURSIVE SumOfColors(_, _)
\* the sum of the first m colors of a sequence
SumOfColors(colors, m) ==
    IF m = 0 THEN BLACK ELSE ColorAdd(SumOfColors(colors, m - 1), colors[m])

\* the equal-weight average of the 25 samples of pixel (x, y)
AverageOfSamples(sc, rt, x, y) ==
    LET samples == SamplesAt(sc, rt, x, y, 1) \o SamplesAt(sc, rt, x, y, 2)
                       \o SamplesAt(sc, rt, x, y, 3) \o SamplesAt(sc, rt, x, y, 4)
                       \o SamplesAt(sc, rt, x, y, 5)
    IN  SumOfColors(samples, Len(samples))

\* the pixel the cell k of a canvas of this width and height shows: column
\* (k - 1) % width is x + width/2, row (k - 1) \div width is height/2 - 1 - y
PixelOfCell(width, height, k) ==
    [x |-> ((k - 1) % width) - (width \div 2), y |-> (height \div 2) - 1 - ((k - 1) \div width)]

\* C13: for every canvas_width and canvas_height, when go returns each of the
\* width x height cells of the canvas has been written exactly once, with the
\* equal-weight average of the 25 samples traced for its pixel; no cell keeps
\* its initial black because go never visited it.
C13_GoWritesEveryCellOnce ==
    GoDone =>
        /\ result = canvas
        /\ canvas.width = args.canvas_width
        /\ canvas.height = args.canvas_height
        /\ Len(canvas.pixels) = args.canvas_width * args.canvas_height
        /\ \A k \in DOMAIN canvas.pixels :
               /\ writes[k] = 1
               /\ LET pixel == PixelOfCell(canvas.width, canvas.height, k)
                  IN  canvas.pixels[k] = AverageOfSamples(scene, args, pixel.x, pixel.y)

\* the pixel coordinates go visits: x from -(cw/2) to cw/2 - 1, y likewise
Visited(rt) ==
    {[x |-> x, y |-> y] : x \in (0 - (rt.canvas_width \div 2)) .. ((rt.canvas_width \div 2) - 1),
                          y \in (0 - (rt.canvas_height \div 2)) .. ((rt.canvas_height \div 2) - 1)}

RECURSIVE Listed(_)
\* the pixels of the set S, one after the other
Listed(S) ==
    IF S = {} THEN <<>>
    ELSE LET p == CHOOSE q \in S : TRUE IN Append(Listed(S \ {p}), p)

RECURSIVE AveragesOf(_, _, _, _)
\* the averages of the first m pixels of a list
AveragesOf(sc, rt, pixels, m) ==
    IF m = 0 THEN <<>>
    ELSE Append(AveragesOf(sc, rt, pixels, m - 1),
                AverageOfSamples(sc, rt, pixels[m].x, pixels[m].y))

\* the orders in which n pixels can be processed
Orders(n) ==
    {order \in [1 .. n -> 1 .. n] : \A m, k \in 1 .. n : m # k => order[m] # order[k]}

RECURSIVE PutInOrder(_, _, _, _, _)
\* the canvas cv after the first m pixels of the order have been written, each
\* with its color
PutInOrder(cv, pixels, colors, order, m) ==
    IF m = 0 THEN cv
    ELSE put_pixel(PutInOrder(cv, pixels, colors, order, m - 1),
                   pixels[order[m]].x, pixels[order[m]].y, colors[order[m]])

\* a step of go that writes the pixel (loop.x, loop.y)
GoWrites == pc = "go" /\ nputs' = nputs + 1

\* C14: the per-pixel work of go is independent: the color written for a pixel
\* is a function of the scene and the pixel's coordinates alone, two distinct
\* pixels that go visits are written to distinct cells, the canvas go returns is
\* the one every order of processing the pixels gives, and the render leaves
\* the scene unchanged.
C14_PixelsAreIndependent ==
    /\ [][pc = "go" => scene' = scene]_vars
    /\ [][GoWrites =>
              /\ [x |-> loop.x, y |-> loop.y] \in Visited(args)
              /\ loop.average_color = AverageOfSamples(scene, args, loop.x, loop.y)
              /\ canvas'.pixels[PixelIndex(canvas, loop.x, loop.y) + 1] = loop.average_color]_vars
    /\ [](pc = "go" =>
              \A p, q \in Visited(args) :
                  p # q => PixelIndex(canvas, p.x, p.y) # PixelIndex(canvas, q.x, q.y))
    /\ [](GoDone =>
              LET pixels == Listed(Visited(args))
                  colors == AveragesOf(scene, args, pixels, Len(pixels))
                  blank == CanvasNew(args.canvas_width, args.canvas_height)
              IN  \A order \in Orders(Len(pixels)) :
                      PutInOrder(blank, pixels, colors, order, Len(pixels)) = result)

\* go has returned a canvas of four pixels that do not all have the same color
C14_Witness ==
    /\ GoDone
    /\ Cardinality(Visited(args)) = 4
    /\ \E k \in DOMAIN result.pixels : result.pixels[k] # result.pixels[1]

ReflectDone == pc = "done" /\ op = "reflect_ray"

\* a.b, a x b = 0 and |a| = 1 on the coordinates as they are stored, without rounding
ExactDot(a, b) == a.x * b.x + a.y * b.y + a.z * b.z

IsParallel(a, b) ==
    /\ a.y * b.z = a.z * b.y
    /\ a.z * b.x = a.x * b.z
    /\ a.x * b.y = a.y * b.x

IsUnit(n) == ExactDot(n, n) = SCALE * SCALE

\* the component of r along the unit vector n
Along(r, n) == MulV(dot(n, r), n)

\* C15: for a unit normal n, reflect_ray(r, n) is -r when r is parallel to n and
\* r when r is perpendicular to n; in general it negates the component of r
\* along n and keeps the component perpendicular to n.
C15_ReflectRayMirrorsAlongNormal ==
    (ReflectDone /\ IsUnit(args.n)) =>
        LET r == args.r
            n == args.n
        IN  /\ IsParallel(r, n) => result = Neg(r)
            /\ ExactDot(r, n) = 0 => result = r
            /\ Along(result, n) = Neg(Along(r, n))
            /\ Sub(result, Along(result, n)) = Sub(r, Along(r, n))
            /\ result = Add(Sub(r, Along(r, n)), Neg(Along(r, n)))

\* a ray neither parallel nor perpendicular to a unit normal that is no axis
\* has been reflected
C15_Witness ==
    /\ ReflectDone
    /\ IsUnit(args.n)
    /\ args.n.x # 0
    /\ args.n.y # 0
    /\ ~IsParallel(args.r, args.n)
    /\ ExactDot(args.r, args.n) # 0
    /\ result # args.r
    /\ result # Neg(args.r)

\* a ray parallel to a unit normal that is no axis has been reflected
C15_WitnessParallel ==
    /\ ReflectDone
    /\ IsUnit(args.n)
    /\ args.n.x # 0
    /\ args.n.y # 0
    /\ args.r # V(0, 0, 0)
    /\ IsParallel(args.r, args.n)

ToU8Done == pc = "done" /\ op = "to_u8"

\* C16: Color::to_u8 maps every channel at or below 0 to 0, every channel at or
\* above 1 to 255, and the channels in between to a byte 0..255 that does not
\* decrease as the channel grows, 0.5 giving 0x80; no input wraps around or fails.
C16_ToU8Clamps ==
    ToU8Done =>
        /\ Len(result) = 3
        /\ \A j \in 1 .. 3 :
               LET f == args.color[j]
               IN  /\ result[j] \in 0 .. 255
                   /\ f <= 0 => result[j] = 0
                   /\ f >= SCALE => result[j] = 255
                   /\ f = SCALE \div 2 => result[j] = 128
        /\ \A j, m \in 1 .. 3 : args.color[j] <= args.color[m] => result[j] <= result[m]

\* a color with a channel above 1, a channel below 0 and a channel in between
\* has been converted, the channel in between to a byte that is neither 0 nor 255
C16_Witness ==
    /\ ToU8Done
    /\ args.color[1] > SCALE
    /\ args.color[2] < 0
    /\ args.color[3] > 0
    /\ args.color[3] < SCALE
    /\ result[1] = 255
    /\ result[2] = 0
    /\ result[3] \in 1 .. 254

\* the values t at which the ray meets any sphere of sc
MeetsAt(sc, ray) == {h[2] : h \in InRangeHits(sc, ray, Range(NEG_INFINITY, INFINITY))}

\* the occluders that count for the light: for a point light the values of t
\* from 0.001 up to but excluding 1.0 along position - p, for a directional
\* light all values from 0.001 on along its direction
Occluders(sc, light, p) ==
    IF light.source.kind = "Point"
    THEN {t \in MeetsAt(sc, Ray(p, Sub(light.source.position, p))) :
              SCALE \div 1000 <= t /\ t < F(1)}
    ELSE {t \in MeetsAt(sc, Ray(p, light.source.direction)) : SCALE \div 1000 <= t}

\* the vector from p towards the light
Towards(light, p) ==
    IF light.source.kind = "Point" THEN Sub(light.source.position, p)
    ELSE light.source.direction

\* C17: the shadow test of compute_lighting counts only occluders between the
\* surface and the light: a point light is shadowed exactly by a sphere met at
\* 0.001 <= t < 1.0 along position - p, so spheres met only at t >= 1 or only at
\* t < 0.001 (the surface itself at t = 0) leave it unshadowed; a directional
\* light is shadowed by every sphere met at t >= 0.001 along its direction.
C17_ShadowCountsOccludersBeforeLight ==
    [][(AtLight /\ ~IsAmbient(ThisLight)) =>
           LET l == Towards(ThisLight, args.p)
               lit == DiffuseTerm(ThisLight.intensity, args.n, l)
                          + SpecularTerm(ThisLight.intensity, args.n, l, args.v, args.specular)
           IN  IF Occluders(scene, ThisLight, args.p) = {} THEN i' = i + lit ELSE i' = i]_vars

\* a point light has lit a surface although the ray towards it meets the
\* surface's own sphere at t = 0 and another sphere at t = 1 and beyond
C17_Witness ==
    /\ pc = "compute_lighting"
    /\ next_light > 1
    /\ LET light == scene.lights[next_light - 1]
           ts == MeetsAt(scene, Ray(args.p, Towards(light, args.p)))
       IN  /\ light.source.kind = "Point"
           /\ 0 \in ts
           /\ F(1) \in ts
           /\ \E t \in ts : t > F(1)
           /\ Occluders(scene, light, args.p) = {}
           /\ i > 0

\* a directional light is shadowed by a sphere met only at t >= 1
C17_WitnessDirectional ==
    /\ pc = "compute_lighting"
    /\ next_light > 1
    /\ LET light == scene.lights[next_light - 1]
           ts == MeetsAt(scene, Ray(args.p, Towards(light, args.p)))
       IN  /\ light.source.kind = "Directional"
           /\ Occluders(scene, light, args.p) # {}
           /\ \A t \in Occluders(scene, light, args.p) : t >= F(1)
           /\ dot(args.n, Towards(light, args.p)) > 0
           /\ i = scene.lights[1].intensity

\* C18: for every canvas made by Canvas::new, sides that are odd, 1 or 0
\* included, and for every pair of coordinates, put_pixel never indexes outside
\* the pixels (whenever it writes, the index is below width * height), and the
\* length of the pixels stays width * height after any sequence of put_pixel calls.
C18_PutPixelIndexIsInsidePixels ==
    /\ [](/\ pc # "panic"
          /\ Len(canvas.pixels) = canvas.width * canvas.height)
    /\ [][PutPixelCalled =>
              /\ Len(canvas'.pixels) = Len(canvas.pixels)
              /\ ~OutOfRange(canvas, args'.x, args'.y) =>
                     /\ 0 <= PixelIndex(canvas, args'.x, args'.y)
                     /\ PixelIndex(canvas, args'.x, args'.y) < canvas.width * canvas.height
                     /\ writes'[PixelIndex(canvas, args'.x, args'.y) + 1]
                            = writes[PixelIndex(canvas, args'.x, args'.y) + 1] + 1]_vars

\* the pixel with the largest x and the smallest y of a canvas with odd sides
\* has been written, after another call of put_pixel
C18_Witness ==
    /\ pc = "canvas"
    /\ nputs >= 2
    /\ canvas.width % 2 = 1
    /\ canvas.height % 2 = 1
    /\ args.x = (canvas.width \div 2) - 1
    /\ args.y = 0 - (canvas.height \div 2)
    /\ \E k \in DOMAIN writes : writes[k] >= 1 /\ canvas.pixels[k] = args.color

\* put_pixel has been called on a canvas without pixels
C18_WitnessEmpty ==
    /\ pc = "canvas"
    /\ nputs >= 2
    /\ canvas.width * canvas.height = 0
    /\ canvas.height > 0

\* put_pixel has been called on a canvas of one pixel, with x = 0 and y = 0
C18_WitnessSingle ==
    /\ pc = "canvas"
    /\ nputs >= 1
    /\ canvas.width = 1
    /\ canvas.height = 1
    /\ args.x = 0
    /\ args.y = 0

====
